---- MODULE Spec2Model ----
(***************************************************************************)
(* The dual-file data log of wpiutil (DataLog.cpp): a time file holding a  *)
(* 4 KiB JSON header followed by fixed-stride records, and an optional     *)
(* data file holding variable-size payloads.  The model keeps the two      *)
(* files (as they are on disk, a MAP_SHARED mapping writes through), the   *)
(* DataLogImpl object with its two FileInfos, the pointer handed out by    *)
(* AppendRawStart, and history variables recording what the caller did.    *)
(*                                                                         *)
(* Bytes are modelled as bytes.  A byte string is a record                 *)
(*   [len |-> n, nz |-> f]   with f a function from the offsets in 0..n-1  *)
(* that hold a non-zero byte to that byte; all other offsets hold 0.  A    *)
(* file is the same with positions for offsets, as a sparse file is.       *)
(* All integers of the model are below 2^31.                               *)
(***************************************************************************)
EXTENDS Integers, Sequences, FiniteSets, TLC

(***************************************************************************)
(* Program constants                                                       *)
(***************************************************************************)
kHeaderSize == 4096
kTimestampSize == 8
kLargePointerRecordSize == kTimestampSize + 8 * 2
kSmallPointerRecordSize == kTimestampSize + 4 * 2
\* the length DoOpen asks the data file's mapping to cover
kDataOpenLen == 1024

(***************************************************************************)
(* Bounds of the model                                                     *)
(***************************************************************************)
\* timestamps passed to the appends are 0..MaxTs
MaxTs == 2
\* an append is started only while fewer than MaxRecords records are stored
MaxRecords == 2
\* the searched logs hold up to MaxFindRecords records
MaxFindRecords == 4
\* with timestamps in 0..MaxFindTs
MaxFindTs == 5

(***************************************************************************)
(* Byte strings and little-endian integers (wpi::support::endian)          *)
(***************************************************************************)
NoBytes == [i \in {} |-> 0]
EmptyBytes == [len |-> 0, nz |-> NoBytes]

\* the byte string holding the bytes of the sequence s
Bytes(s) ==
  [len |-> Len(s),
   nz  |-> [i \in {j - 1 : j \in {k \in 1..Len(s) : s[k] # 0}} |-> s[i + 1]]]

BytesAt(b, i) == IF i \in DOMAIN b.nz THEN b.nz[i] ELSE 0

\* b.slice(from, n): n bytes of b starting at offset from
Slice(b, from, n) ==
  [len |-> n,
   nz  |-> [i \in {j - from : j \in {k \in DOMAIN b.nz : k >= from /\ k < from + n}}
              |-> b.nz[i + from]]]

\* the bytes of a followed by the bytes of b
Concat(a, b) ==
  [len |-> a.len + b.len,
   nz  |-> [p \in (DOMAIN a.nz) \cup {q + a.len : q \in DOMAIN b.nz}
              |-> IF p < a.len THEN a.nz[p] ELSE b.nz[p - a.len]]]

Pow256(i) == CASE i = 0 -> 1 [] i = 1 -> 256 [] i = 2 -> 65536 [] i = 3 -> 16777216

\* byte i of the unsigned value v; v < 2^31, so bytes 4.. are 0
ByteOf(v, i) == IF i < 4 THEN (v \div Pow256(i)) % 256 ELSE 0

\* the low w bytes of v, little-endian: a value wider than w bytes is cut
LEBytes(v, w) ==
  [len |-> w,
   nz  |-> [i \in {j \in 0..(w - 1) : ByteOf(v, j) # 0} |-> ByteOf(v, i)]]

write64le(v) == LEBytes(v, 8)
write32le(v) == LEBytes(v, 4)

RECURSIVE LEValue(_, _, _)
\* the unsigned value of the w bytes of b starting at offset at
LEValue(b, at, w) ==
  IF w = 0 THEN 0
  ELSE LET hi == BytesAt(b, at + w - 1)
       IN (IF hi = 0 THEN 0 ELSE hi * Pow256(w - 1)) + LEValue(b, at, w - 1)

read64le(b, at) == LEValue(b, at, 8)
read32le(b, at) == LEValue(b, at, 4)

(***************************************************************************)
(* Files on disk                                                           *)
(***************************************************************************)
\* the header region of a file that holds no JSON text (all zero bytes)
NoHeader == [json |-> FALSE]

\* a file that does not exist.  Of the system under a file, full tells
\* that it has no room to extend the file (ftruncate to a greater length
\* fails), nomap that it refuses to map the file (mmap fails).
NoFile ==
  [exists |-> FALSE, len |-> 0, hdr |-> NoHeader, nz |-> NoBytes,
   full |-> FALSE, nomap |-> FALSE]

\* len bytes of file f at position pos
FileRead(f, pos, n) ==
  [len |-> n,
   nz  |-> [i \in {q - pos : q \in {p \in DOMAIN f.nz : p >= pos /\ p < pos + n}}
              |-> f.nz[i + pos]]]

\* memcpy of the byte string b into the shared mapping of f at position
\* pos; a byte stored past the end of the file does not reach the file
FileWrite(f, pos, b) ==
  [f EXCEPT !.nz =
     [p \in ((DOMAIN f.nz) \ (pos..(pos + b.len - 1)))
               \cup {q \in {pos + i : i \in DOMAIN b.nz} : q < f.len}
        |-> IF (p - pos) \in DOMAIN b.nz THEN b.nz[p - pos] ELSE f.nz[p]]]

\* ftruncate(fd, n): cut the file at n or extend it with zero bytes
Ftruncate(f, n) ==
  [f EXCEPT !.len = n,
            !.hdr = IF n = 0 THEN NoHeader ELSE f.hdr,
            !.nz  = [p \in {q \in DOMAIN f.nz : q < n} |-> f.nz[p]]]

\* ftruncate(fd, n) as the program calls it: on a failure, which is only
\* reported with perror, the file is as it was
SetFileSize(f, n) == IF f.full /\ n > f.len THEN f ELSE Ftruncate(f, n)

GetFileSize(f) == f.len

(***************************************************************************)
(* Creation dispositions (wpi::sys::fs::openFile)                          *)
(***************************************************************************)
CD_CreateAlways == "CD_CreateAlways"
CD_CreateNew == "CD_CreateNew"
CD_OpenExisting == "CD_OpenExisting"
CD_OpenAlways == "CD_OpenAlways"

\* openFile: [ec, f]: whether the open failed, and the file afterwards
openFile(f, disp) ==
  CASE disp = CD_CreateAlways ->
         [ec |-> FALSE, f |-> [NoFile EXCEPT !.exists = TRUE]]
    [] disp = CD_CreateNew ->
         IF f.exists THEN [ec |-> TRUE, f |-> f]
         ELSE [ec |-> FALSE, f |-> [NoFile EXCEPT !.exists = TRUE]]
    [] disp = CD_OpenExisting ->
         [ec |-> ~f.exists, f |-> f]
    [] disp = CD_OpenAlways ->
         [ec |-> FALSE, f |-> IF f.exists THEN f ELSE [NoFile EXCEPT !.exists = TRUE]]

(***************************************************************************)
(* MappedFile and FileInfo                                                 *)
(***************************************************************************)
\* a MappedFile holding no mapping
NoMap == [mapped |-> FALSE, size |-> 0]

\* MappedFile(fd, length, 0, readOnly, ec): mmap of the first length bytes
\* of the file f, whatever the length of f; mmap refuses a length of 0.
\* m_size is set either way.
MappedFile(f, length) == [mapped |-> length > 0 /\ ~f.nomap, size |-> length]

\* MappedFile::Unmap
Unmap(map) == [map EXCEPT !.mapped = FALSE]

\* a FileInfo as the DataLogImpl constructor leaves it
NewFileInfo ==
  [fd |-> FALSE, readOnly |-> FALSE, writePos |-> 0, fileSize |-> 0,
   map |-> NoMap, mapOffset |-> 0, mapGrowSize |-> 0, maxGrowSize |-> 0]

\* FileInfo::Open with the outcome o of openFile: [fi, f, ec]
Opened(fi, o, ro) ==
  [fi |-> [fi EXCEPT !.readOnly = ro, !.fd = ~o.ec], f |-> o.f, ec |-> o.ec]

\* FileInfo::Open(filename, disp, ro) on the file f
FileInfo_Open(fi, f, disp, ro) == Opened(fi, openFile(f, disp), ro)

\* a window that does not take a range ending at the end of the mapping
InWindow_Inside(fi, pos, len) ==
  /\ fi.map.mapped
  /\ pos >= fi.mapOffset
  /\ (pos + len - fi.mapOffset) < fi.map.size

\* GetMappedOffset, the easy case: the range is in the mapped window
InWindow(fi, pos, len) ==
  /\ fi.map.mapped
  /\ pos >= fi.mapOffset
  /\ (pos + len - fi.mapOffset) <= fi.map.size

\* GetMappedOffset, "round up to multiple of mapGrowSize": the new fileSize
GrownFileSize(fi, size) ==
  IF ~fi.readOnly /\ size > fi.fileSize THEN size ELSE fi.fileSize

\* GetMappedOffset, "scale up mapGrowSize until it gets to maxGrowSize"
GrownMapSize(fi) ==
  IF ~fi.readOnly /\ fi.mapGrowSize < fi.maxGrowSize
  THEN IF fi.mapGrowSize * 2 > fi.maxGrowSize THEN fi.maxGrowSize
       ELSE fi.mapGrowSize * 2
  ELSE fi.mapGrowSize

\* GetMappedOffset, "update map" with the new MappedFile map
UpdateMap(fi, f, pos, map) ==
  [fi |-> [fi EXCEPT !.map = map], f |-> f,
   off |-> IF map.mapped THEN pos - fi.mapOffset ELSE -1,
   ec |-> ~map.mapped, remapped |-> TRUE]

\* GetMappedOffset, the range is not in the window: the file of a writable
\* FileInfo is set to fileSize bytes, and the whole file is mapped
Remap(fi, f, pos, fileSize) ==
  UpdateMap([fi EXCEPT !.fileSize = fileSize, !.mapGrowSize = GrownMapSize(fi)],
            IF fi.readOnly THEN f ELSE SetFileSize(f, fileSize),
            pos, MappedFile(f, fileSize))

\* GetMappedOffset growing the file to the end of the range, not rounded up
GetMappedOffset_Exact(fi, f, pos, len) ==
  IF InWindow(fi, pos, len)
  THEN [fi |-> fi, f |-> f, off |-> pos - fi.mapOffset, ec |-> FALSE,
        remapped |-> FALSE]
  ELSE Remap(fi, f, pos, GrownFileSize(fi, pos + len))

\* FileInfo::GetMappedOffset(pos, len, ec) on the file f:
\* [fi, f, off, ec, remapped]; off is -1 for SIZE_MAX
GetMappedOffset(fi, f, pos, len) ==
  IF InWindow(fi, pos, len)
  THEN [fi |-> fi, f |-> f, off |-> pos - fi.mapOffset, ec |-> FALSE,
        remapped |-> FALSE]
  ELSE Remap(fi, f, pos,
             GrownFileSize(fi, ((pos + len + fi.mapGrowSize - 1) \div fi.mapGrowSize)
                                 * fi.mapGrowSize))

\* whether len bytes at mapping offset off lie inside the mapping and the file
Readable(fi, f, off, len) ==
  /\ fi.map.mapped
  /\ off + len <= fi.map.size
  /\ fi.mapOffset + off + len <= f.len

\* FileInfo::Read after its GetMappedOffset returned g:
\* [fi, f, view, size, valid, remapped]; view is the content of the ArrayRef
\* returned, size its length, valid whether it lies inside the mapping
ReadView(g, len) ==
  IF g.ec
  THEN [fi |-> g.fi, f |-> g.f, view |-> EmptyBytes, size |-> 0, valid |-> TRUE,
        remapped |-> g.remapped]
  ELSE [fi |-> g.fi, f |-> g.f,
        view |-> FileRead(g.f, g.fi.mapOffset + g.off, len), size |-> len,
        valid |-> Readable(g.fi, g.f, g.off, len), remapped |-> g.remapped]

\* FileInfo::Read(pos, len)
Read(fi, f, pos, len) == ReadView(GetMappedOffset(fi, f, pos, len), len)

\* FileInfo::Write after its GetMappedOffset returned g: [fi, f, remapped]
WriteAt(g, data) ==
  [fi |-> g.fi,
   f |-> IF g.ec THEN g.f ELSE FileWrite(g.f, g.fi.mapOffset + g.off, data),
   remapped |-> g.remapped]

\* FileInfo::Write(pos, data)
Write(fi, f, pos, data) == WriteAt(GetMappedOffset(fi, f, pos, data.len), data)

\* FileInfo::Close: [fi, f]
Close(fi, f) ==
  [fi |-> [fi EXCEPT !.map = Unmap(fi.map), !.fd = FALSE],
   f  |-> IF fi.fd /\ fi.writePos # 0 /\ ~fi.readOnly
          THEN SetFileSize(f, fi.writePos) ELSE f]

(***************************************************************************)
(* DataLogImpl                                                             *)
(***************************************************************************)
\* a DataLogImpl as its constructor leaves it
NewImpl ==
  [m_dataType |-> "", m_dataLayout |-> "", m_gapData |-> <<>>,
   m_recordSize |-> 0, m_fixedSize |-> FALSE, m_checkMonotonic |-> FALSE,
   m_periodicFlush |-> 0, m_periodicFlushCount |-> 0, m_lastTimestamp |-> 0,
   m_time |-> NewFileInfo, m_data |-> NewFileInfo]

\* A world is the object with the two files it works on:
\*   [impl, tf, df, rt, rd, fl]
\* rt (rd) records that the time (data) mapping was replaced, which
\* invalidates the pointers into it; fl that Flush ran.
World(i, tf, df) ==
  [impl |-> i, tf |-> tf, df |-> df, rt |-> FALSE, rd |-> FALSE, fl |-> FALSE]

\* the world w after a call of m_time.GetMappedOffset, Read or Write gave g
TookTime(w, g) ==
  [w EXCEPT !.impl.m_time = g.fi, !.tf = g.f, !.rt = w.rt \/ g.remapped]

\* the world w after a call of m_data.GetMappedOffset, Read or Write gave g
TookData(w, g) ==
  [w EXCEPT !.impl.m_data = g.fi, !.df = g.f, !.rd = w.rd \/ g.remapped]

\* DataLogImpl::size()
size(i) == (i.m_time.writePos - kHeaderSize) \div i.m_recordSize

\* JSON values
JString(s) == [t |-> "string", v |-> s]
JNumber(n) == [t |-> "number", v |-> n]
JBool(b) == [t |-> "boolean", v |-> b]

\* j.at(key).get<type>() succeeds
JHas(obj, key, type) == key \in DOMAIN obj /\ obj[key].t = type

\* WriteHeader, the JSON object it dumps
HeaderJson(i) ==
  [dataType     |-> JString(i.m_dataType),
   dataLayout   |-> JString(i.m_dataLayout),
   recordSize   |-> JNumber(i.m_recordSize),
   fixedSize    |-> JBool(i.m_fixedSize),
   gapData      |-> JString(i.m_gapData),
   timeWritePos |-> JNumber(i.m_time.mapOffset + i.m_time.writePos),
   dataWritePos |-> JNumber(i.m_data.mapOffset + i.m_data.writePos)]

\* WriteHeader, m_time.Write(0, buf) after its GetMappedOffset returned g:
\* the JSON text, zero-padded to kHeaderSize, is the start of the time file.
\* The strings are short enough for the text to fit the header.
PutHeader(w, g) ==
  IF g.ec THEN TookTime(w, g)
  ELSE TookTime(w, [g EXCEPT !.f.hdr = [json |-> TRUE, obj |-> HeaderJson(w.impl)]])

\* DataLogImpl::WriteHeader
WriteHeader(w) ==
  IF ~w.impl.m_time.map.mapped \/ w.impl.m_time.readOnly THEN w
  ELSE PutHeader(w, GetMappedOffset(w.impl.m_time, w.tf, 0, kHeaderSize))

\* ReadHeader taking the time file's write position from dataWritePos
HeaderFields_DataPos(i, j) ==
  [i EXCEPT !.m_dataType = j.dataType.v,
            !.m_dataLayout = j.dataLayout.v,
            !.m_recordSize = j.recordSize.v,
            !.m_fixedSize = j.fixedSize.v,
            !.m_gapData = j.gapData.v,
            !.m_time.writePos = j.dataWritePos.v,
            !.m_data.writePos = j.dataWritePos.v]

\* ReadHeader, the fields taken from the JSON object j
HeaderFields(i, j) ==
  [i EXCEPT !.m_dataType = j.dataType.v,
            !.m_dataLayout = j.dataLayout.v,
            !.m_recordSize = j.recordSize.v,
            !.m_fixedSize = j.fixedSize.v,
            !.m_gapData = j.gapData.v,
            !.m_time.writePos = j.timeWritePos.v,
            !.m_data.writePos = j.dataWritePos.v]

\* ReadHeader, whether every field is there with its type
HeaderComplete(j) ==
  /\ JHas(j, "dataType", "string")
  /\ JHas(j, "dataLayout", "string")
  /\ JHas(j, "recordSize", "number")
  /\ JHas(j, "fixedSize", "boolean")
  /\ JHas(j, "gapData", "string")
  /\ JHas(j, "timeWritePos", "number")
  /\ JHas(j, "dataWritePos", "number")

\* DataLogImpl::ReadHeader on the time file tf: [impl, err].  The parser
\* stops at the first zero byte; a header of zero bytes holds no JSON value.
ReadHeader(i, tf) ==
  IF tf.hdr.json /\ HeaderComplete(tf.hdr.obj)
  THEN [impl |-> HeaderFields(i, tf.hdr.obj), err |-> "none"]
  ELSE [impl |-> i, err |-> "wrong_protocol_type"]

\* DataLogImpl::Flush (MappedFile::Flush schedules write-back and changes
\* nothing the program can read)
Flush(w) == [WriteHeader(w) EXCEPT !.fl = TRUE]

\* Check comparing a non-zero recordSize with m_recordSize only
Check_SizeOnly(i, dataType, dataLayout, recordSize, checkType, checkLayout, checkSize) ==
  IF \/ (checkType /\ i.m_dataType # dataType)
     \/ (checkLayout /\ i.m_dataLayout # dataLayout)
     \/ (checkSize /\
          (\/ (recordSize # 0 /\ i.m_recordSize # recordSize)
           \/ (recordSize = 0 /\
                 (i.m_fixedSize \/ (/\ i.m_recordSize # kLargePointerRecordSize
                                     /\ i.m_recordSize # kSmallPointerRecordSize)))))
  THEN "wrong_protocol_type"
  ELSE "none"

\* DataLogImpl::Check: the error it returns
Check(i, dataType, dataLayout, recordSize, checkType, checkLayout, checkSize) ==
  IF \/ (checkType /\ i.m_dataType # dataType)
     \/ (checkLayout /\ i.m_dataLayout # dataLayout)
     \/ (checkSize /\
          (\/ (recordSize # 0 /\ (~i.m_fixedSize \/ i.m_recordSize # recordSize))
           \/ (recordSize = 0 /\
                 (i.m_fixedSize \/ (/\ i.m_recordSize # kLargePointerRecordSize
                                     /\ i.m_recordSize # kSmallPointerRecordSize)))))
  THEN "wrong_protocol_type"
  ELSE "none"

\* DoOpen, the new-log branch: the object describes an empty log
DoOpenNew(i, dataType, dataLayout, recordSize, config) ==
  [i EXCEPT !.m_dataType = dataType,
            !.m_dataLayout = dataLayout,
            !.m_fixedSize = recordSize # 0,
            !.m_recordSize = IF recordSize # 0 THEN recordSize
                             ELSE IF config.largeData THEN kLargePointerRecordSize
                             ELSE kSmallPointerRecordSize,
            !.m_gapData = config.gapData,
            !.m_time.writePos = kHeaderSize]

\* DoOpen, "set configuration"
DoOpenConfig(i, config) ==
  [i EXCEPT !.m_periodicFlush = config.periodicFlush,
            !.m_checkMonotonic = config.checkMonotonic,
            !.m_time.maxGrowSize = config.maxGrowSize * i.m_recordSize,
            !.m_time.mapGrowSize = config.initialSize * i.m_recordSize,
            !.m_data.maxGrowSize = config.maxDataGrowSize,
            !.m_data.mapGrowSize = config.initialDataSize]

\* DoOpen, "open the time file", with the outcome o of m_time.Open: [w, err]
DoOpenTimeFile(w, o) ==
  IF o.ec THEN [w |-> [w EXCEPT !.impl.m_time = o.fi, !.tf = o.f], err |-> "open"]
  ELSE [w |-> [w EXCEPT !.impl.m_time = [o.fi EXCEPT !.fileSize = GetFileSize(o.f)],
                        !.tf = o.f],
        err |-> "none"]

\* DoOpen, the existing-log branch after ReadHeader returned h
DoOpenExisting(w, h, dataType, dataLayout, recordSize, config) ==
  IF h.err # "none" THEN [w |-> w, err |-> h.err]
  ELSE [w |-> [w EXCEPT !.impl = h.impl],
        err |-> Check(h.impl, dataType, dataLayout, recordSize,
                      config.checkType, config.checkLayout, config.checkSize)]

\* DoOpen, reading the header of an existing log or describing a new one
DoOpenHeader(r, dataType, dataLayout, recordSize, disp, config) ==
  IF r.err # "none" THEN r
  ELSE IF disp = CD_OpenExisting \/ (disp = CD_OpenAlways /\ r.w.impl.m_time.fileSize > 0)
  THEN DoOpenExisting(r.w, ReadHeader(r.w.impl, r.w.tf),
                      dataType, dataLayout, recordSize, config)
  ELSE [w |-> [r.w EXCEPT !.impl = DoOpenNew(r.w.impl, dataType, dataLayout,
                                              recordSize, config)],
        err |-> "none"]

\* DoOpen, "set configuration" unless an earlier step failed
DoOpenSetConfig(r, config) ==
  IF r.err # "none" THEN r
  ELSE [w |-> [r.w EXCEPT !.impl = DoOpenConfig(r.w.impl, config)], err |-> "none"]

\* DoOpen, "Read last timestamp" after its GetMappedOffset returned g
DoOpenLastTimestamp(w, g) ==
  IF g.ec THEN [w |-> TookTime(w, g), err |-> "map"]
  ELSE [w |-> [TookTime(w, g) EXCEPT !.impl.m_lastTimestamp =
                 read64le(FileRead(g.f, g.fi.mapOffset + g.off, kTimestampSize), 0)],
        err |-> "none"]

\* DoOpen, mapping the slot of the next record after GetMappedOffset returned g
DoOpenMapped(w, g) ==
  [w |-> TookTime(w, g), err |-> IF g.ec THEN "map" ELSE "none"]

\* DoOpen, "set up the time file for writing"
DoOpenTime(r) ==
  IF r.err # "none" THEN r
  ELSE IF r.w.impl.m_time.writePos > (kHeaderSize + r.w.impl.m_recordSize)
  THEN DoOpenLastTimestamp(r.w,
         GetMappedOffset(r.w.impl.m_time, r.w.tf,
                         r.w.impl.m_time.writePos - r.w.impl.m_recordSize,
                         r.w.impl.m_recordSize * 2))
  ELSE DoOpenMapped(r.w,
         GetMappedOffset(r.w.impl.m_time, r.w.tf, r.w.impl.m_time.writePos,
                         r.w.impl.m_recordSize))

\* DoOpen, the data file's first mapping after its GetMappedOffset returned g
DoOpenDataMapped(w, g) ==
  [w |-> TookData(w, g), err |-> IF g.ec THEN "map" ELSE "none"]

\* DoOpen, "open the data file", with the outcome o of m_data.Open
DoOpenDataFile(w, o) ==
  IF o.ec THEN [w |-> [w EXCEPT !.impl.m_data = o.fi, !.df = o.f], err |-> "open"]
  ELSE DoOpenDataMapped(w,
         GetMappedOffset([o.fi EXCEPT !.fileSize = GetFileSize(o.f)], o.f,
                         o.fi.writePos, kDataOpenLen))

\* DoOpen, the data file of a variable-size log
DoOpenData(r, disp, config) ==
  IF r.err # "none" \/ r.w.impl.m_fixedSize THEN r
  ELSE DoOpenDataFile(r.w, FileInfo_Open(r.w.impl.m_data, r.w.df, disp, config.readOnly))

\* DataLogImpl::DoOpen on a fresh object: [w, err]
DoOpen(w, dataType, dataLayout, recordSize, disp, config) ==
  DoOpenData(
    DoOpenTime(
      DoOpenSetConfig(
        DoOpenHeader(
          DoOpenTimeFile(w, FileInfo_Open(w.impl.m_time, w.tf, disp, config.readOnly)),
          dataType, dataLayout, recordSize, disp, config),
        config)),
    disp, config)

\* destruction of the object: ~DataLogImpl writes the header, then the
\* FileInfo members are destroyed, each closing its file
Destroyed(w, t, d) ==
  [w EXCEPT !.impl.m_time = t.fi, !.tf = t.f, !.impl.m_data = d.fi, !.df = d.f]

Closed(w) ==
  Destroyed(w, Close(w.impl.m_time, w.tf), Close(w.impl.m_data, w.df))

Destroy(w) == Closed(WriteHeader(w))

\* a null pointer; a pointer is [file, off]: an offset in the mapping of the
\* time file or of the data file
NullPtr == [file |-> "none", off |-> 0]

\* PointerBytes storing the size before the write position
PointerBytes_Swapped(i, sz) ==
  IF i.m_recordSize = kLargePointerRecordSize
  THEN Concat(write64le(sz), write64le(i.m_data.writePos))
  ELSE Concat(write32le(sz), write32le(i.m_data.writePos))

\* AppendRawStart, "write data to data file": the pointer stored in the
\* time record of a variable-size log, m_data.writePos then size
PointerBytes(i, sz) ==
  IF i.m_recordSize = kLargePointerRecordSize
  THEN Concat(write64le(i.m_data.writePos), write64le(sz))
  ELSE Concat(write32le(i.m_data.writePos), write32le(sz))

\* AppendRawStart of a variable-size log after m_data.GetMappedOffset gave d
AppendRawStartData(w, d, timestamp) ==
  IF d.ec THEN [w |-> TookData(w, d), ptr |-> NullPtr]
  ELSE [w |-> [TookData(w, d) EXCEPT !.impl.m_lastTimestamp = timestamp],
        ptr |-> [file |-> "data", off |-> d.off]]

\* AppendRawStart with timeBuf at file position pos of the time file
AppendRawStartAt(w, pos, off, timestamp, sz) ==
  IF w.impl.m_fixedSize
  THEN [w |-> [w EXCEPT !.tf = FileWrite(w.tf, pos, write64le(timestamp)),
                        !.impl.m_lastTimestamp = timestamp],
        ptr |-> [file |-> "time", off |-> off + kTimestampSize]]
  ELSE AppendRawStartData(
         [w EXCEPT !.tf = FileWrite(FileWrite(w.tf, pos, write64le(timestamp)),
                                    pos + kTimestampSize, PointerBytes(w.impl, sz))],
         GetMappedOffset(w.impl.m_data, w.df, w.impl.m_data.writePos, sz),
         timestamp)

\* AppendRawStart after m_time.GetMappedOffset returned g
AppendRawStartTime(w, g, timestamp, sz) ==
  IF g.ec THEN [w |-> TookTime(w, g), ptr |-> NullPtr]
  ELSE AppendRawStartAt(TookTime(w, g), g.fi.mapOffset + g.off, g.off, timestamp, sz)

\* AppendRawStart rejecting only timestamps below m_lastTimestamp
AppendRawStart_Strict(w, timestamp, sz) ==
  IF w.impl.m_checkMonotonic /\ timestamp < w.impl.m_lastTimestamp
  THEN [w |-> w, ptr |-> NullPtr]
  ELSE IF w.impl.m_time.readOnly
  THEN [w |-> w, ptr |-> NullPtr]
  ELSE AppendRawStartTime(w,
         GetMappedOffset(w.impl.m_time, w.tf, w.impl.m_time.writePos,
                         w.impl.m_recordSize),
         timestamp, sz)

\* AppendRawStart that does not look at m_time.readOnly
AppendRawStart_Writable(w, timestamp, sz) ==
  IF w.impl.m_checkMonotonic /\ timestamp <= w.impl.m_lastTimestamp
  THEN [w |-> w, ptr |-> NullPtr]
  ELSE AppendRawStartTime(w,
         GetMappedOffset(w.impl.m_time, w.tf, w.impl.m_time.writePos,
                         w.impl.m_recordSize),
         timestamp, sz)

\* DataLogImpl::AppendRawStart(timestamp, size): [w, ptr]
AppendRawStart(w, timestamp, sz) ==
  IF w.impl.m_checkMonotonic /\ timestamp <= w.impl.m_lastTimestamp
  THEN [w |-> w, ptr |-> NullPtr]
  ELSE IF w.impl.m_time.readOnly
  THEN [w |-> w, ptr |-> NullPtr]
  ELSE AppendRawStartTime(w,
         GetMappedOffset(w.impl.m_time, w.tf, w.impl.m_time.writePos,
                         w.impl.m_recordSize),
         timestamp, sz)

\* gap data that is written without moving m_data.writePos past it
GapWritten_InPlace(w, g) == TookData(w, g)

\* AppendRawFinish, "write gap data (if any)" after m_data.Write returned g
GapWritten(w, g) ==
  [TookData(w, g) EXCEPT !.impl.m_data.writePos = @ + Len(w.impl.m_gapData)]

\* AppendRawFinish, "write gap data (if any)"
WriteGap(w) ==
  IF w.impl.m_gapData = <<>> THEN w
  ELSE GapWritten(w, Write(w.impl.m_data, w.df, w.impl.m_data.writePos,
                           Bytes(w.impl.m_gapData)))

\* AppendRawFinish, the data file's write position moves past the payload
\* and the gap
AdvanceData(w, sz) ==
  IF w.impl.m_fixedSize THEN w
  ELSE WriteGap([w EXCEPT !.impl.m_data.writePos = @ + sz])

\* a periodic flush that does not rewrite the header
PeriodicFlush_NoHeader(w) ==
  IF w.impl.m_periodicFlush = 0 THEN w
  ELSE IF w.impl.m_periodicFlushCount + 1 >= w.impl.m_periodicFlush
  THEN [w EXCEPT !.impl.m_periodicFlushCount = 0, !.fl = TRUE]
  ELSE [w EXCEPT !.impl.m_periodicFlushCount = @ + 1]

\* a periodic flush that does not start counting again
PeriodicFlush_Counting(w) ==
  IF w.impl.m_periodicFlush = 0 THEN w
  ELSE IF w.impl.m_periodicFlushCount + 1 >= w.impl.m_periodicFlush
  THEN Flush([w EXCEPT !.impl.m_periodicFlushCount = @ + 1])
  ELSE [w EXCEPT !.impl.m_periodicFlushCount = @ + 1]

\* AppendRawFinish, "periodic flush (if enabled)"
PeriodicFlush(w) ==
  IF w.impl.m_periodicFlush = 0 THEN w
  ELSE IF w.impl.m_periodicFlushCount + 1 >= w.impl.m_periodicFlush
  THEN [Flush([w EXCEPT !.impl.m_periodicFlushCount = @ + 1])
          EXCEPT !.impl.m_periodicFlushCount = 0]
  ELSE [w EXCEPT !.impl.m_periodicFlushCount = @ + 1]

\* AppendRawFinish moving m_time.writePos past the timestamp only
AppendRawFinish_Stamp(w, sz) ==
  PeriodicFlush([AdvanceData(w, sz) EXCEPT
                   !.impl.m_time.writePos = @ + kTimestampSize])

\* DataLogImpl::AppendRawFinish(size)
AppendRawFinish(w, sz) ==
  PeriodicFlush([AdvanceData(w, sz) EXCEPT
                   !.impl.m_time.writePos = @ + w.impl.m_recordSize])

\* memcpy(out, data, size) through a pointer AppendRawStart returned
StorePayload(w, ptr, data) ==
  IF ptr.file = "time"
  THEN [w EXCEPT !.tf = FileWrite(w.tf, w.impl.m_time.mapOffset + ptr.off, data)]
  ELSE [w EXCEPT !.df = FileWrite(w.df, w.impl.m_data.mapOffset + ptr.off, data)]

\* AppendRaw after AppendRawStart returned s: [w, ok]
AppendRawStarted(s, data) ==
  IF s.ptr = NullPtr THEN [w |-> s.w, ok |-> FALSE]
  ELSE [w |-> AppendRawFinish(StorePayload(s.w, s.ptr, data), data.len), ok |-> TRUE]

\* DataLogImpl::AppendRaw(timestamp, data): [w, ok]
AppendRaw(w, timestamp, data) ==
  AppendRawStarted(AppendRawStart(w, timestamp, data.len), data)

\* ReadRaw of a variable-size log after m_data.Read returned d
ReadRawData(w, ts, d, valid) ==
  [w |-> TookData(w, d), ts |-> ts, data |-> d.view, ub |-> ~(valid /\ d.valid)]

\* ReadRaw with the time record raw: [w, ts, data, ub]; ub tells that the
\* call read memory outside a mapping
ReadRawRecord(w, raw) ==
  IF raw.size < w.impl.m_recordSize \/ raw.size < kTimestampSize
  THEN [w |-> TookTime(w, raw), ts |-> 0, data |-> EmptyBytes, ub |-> FALSE]
  ELSE IF w.impl.m_fixedSize
  THEN [w |-> TookTime(w, raw), ts |-> read64le(raw.view, 0),
        data |-> Slice(raw.view, kTimestampSize, raw.size - kTimestampSize),
        ub |-> ~raw.valid]
  ELSE IF w.impl.m_recordSize = kLargePointerRecordSize
  THEN ReadRawData(TookTime(w, raw), read64le(raw.view, 0),
                   Read(w.impl.m_data, w.df,
                        read64le(raw.view, kTimestampSize),
                        read64le(raw.view, kTimestampSize + 8)),
                   raw.valid)
  ELSE ReadRawData(TookTime(w, raw), read64le(raw.view, 0),
                   Read(w.impl.m_data, w.df,
                        read32le(raw.view, kTimestampSize),
                        read32le(raw.view, kTimestampSize + 4)),
                   raw.valid)

\* DataLogImpl::ReadRaw(n)
ReadRaw(w, n) ==
  ReadRawRecord(w, Read(w.impl.m_time, w.tf,
                        kHeaderSize + n * w.impl.m_recordSize, w.impl.m_recordSize))

Min(a, b) == IF a < b THEN a ELSE b

RECURSIVE FindLoop(_, _, _, _, _, _)
RECURSIVE FindStep(_, _, _, _, _, _)
\* FindImpl, the loop: [w, first, reads, ub]; reads is the set of indexes
\* handed to ReadRaw
FindLoop(w, timestamp, first, count, reads, ub) ==
  IF count > 0
  THEN FindStep(ReadRaw(w, first + count \div 2), timestamp, first, count,
                reads \cup {first + count \div 2}, ub)
  ELSE [w |-> w, first |-> first, reads |-> reads, ub |-> ub]

\* the loop body of an upper-bound search
FindStep_Upper(r, timestamp, first, count, reads, ub) ==
  IF r.ts <= timestamp
  THEN FindLoop(r.w, timestamp, first + count \div 2 + 1,
                count - (count \div 2 + 1), reads, ub \/ r.ub)
  ELSE FindLoop(r.w, timestamp, first, count \div 2, reads, ub \/ r.ub)

\* FindImpl, the loop body after ReadRaw(it) returned r
FindStep(r, timestamp, first, count, reads, ub) ==
  IF r.ts < timestamp
  THEN FindLoop(r.w, timestamp, first + count \div 2 + 1,
                count - (count \div 2 + 1), reads, ub \/ r.ub)
  ELSE FindLoop(r.w, timestamp, first, count \div 2, reads, ub \/ r.ub)

\* DataLogImpl::FindImpl(timestamp, first, last), first <= min(size(), last)
FindImpl(w, timestamp, first, last) ==
  FindLoop(w, timestamp, first, Min(size(w.impl), last) - first, {}, FALSE)

\* find(ts): the search over all the records, [0, size())
Find(w, timestamp) == FindImpl(w, timestamp, 0, size(w.impl))

(***************************************************************************)
(* The state                                                               *)
(***************************************************************************)
VARIABLES
  timeFile,   \* the time file on disk
  dataFile,   \* the data file on disk
  impl,       \* the DataLogImpl of the open log, NewImpl while none is open
  alive,      \* whether a DataLog is open
  pend,       \* the pointer the last successful AppendRawStart returned
  hist,       \* history: the appends completed on this log, oldest first
  sess,       \* history: what happened since the log was opened
  ret         \* the last operation and what it returned

vars == <<timeFile, dataFile, impl, alive, pend, hist, sess, ret>>

\* no append is in progress
NoPend == [file |-> "none", off |-> 0, size |-> 0, ts |-> 0, valid |-> FALSE]

(***************************************************************************)
(* What the caller passes                                                  *)
(***************************************************************************)
Timestamps == 0..MaxTs

\* the largest payload size handed to an append that is to be refused
MaxPayload == 2

\* recordSize arguments of Open: a variable-size log, or a fixed-size log
\* of 2-byte payloads
RecordSizeArgs == {0, kTimestampSize + 2}

\* the size of the payload appended with timestamp ts
PayloadSize(i, ts) ==
  IF i.m_fixedSize THEN i.m_recordSize - kTimestampSize
  ELSE IF ts % 2 = 1 THEN 0 ELSE 2

\* the payload appended with timestamp ts: n bytes, one of them non-zero
Payload(ts, n) ==
  [len |-> n, nz |-> [p \in {q \in {ts % 2} : q < n} |-> 16 + ts]]

Config(ro, mono, large, flush, gap) ==
  [readOnly |-> ro, checkType |-> TRUE, checkLayout |-> TRUE, checkSize |-> TRUE,
   checkMonotonic |-> mono, largeData |-> large, periodicFlush |-> flush,
   initialSize |-> 1, maxGrowSize |-> 2, initialDataSize |-> 1,
   maxDataGrowSize |-> 2, gapData |-> gap]

\* configurations a log is created with
CreateConfigs ==
  {Config(FALSE, mono, large, IF mono THEN 2 ELSE 0, IF large THEN <<>> ELSE <<35>>) :
     mono \in BOOLEAN, large \in BOOLEAN}

\* configurations an existing log is opened with
ReopenConfigs ==
  {Config(FALSE, mono, FALSE, IF mono THEN 2 ELSE 0, <<>>) : mono \in BOOLEAN}
    \cup {Config(TRUE, FALSE, FALSE, 0, <<>>)}

DataTypes == {"double"}
DataLayouts == {""}

\* the history of a session while no log is open.  Of a session it tells:
\*   finishes  the calls of AppendRawFinish completed since the open
\*   atOpen    the records the log held when it was opened
\*   fresh     whether the open created the log
\*   last      the timestamp of the last successful AppendRawStart since
\*             the open, -1 if there was none
\*   initialSize  the initialSize of the configuration it was opened with
\* and of the log, mono: whether every session opened for writing so far
\* had checkMonotonic set
NoSession(mono) ==
  [finishes |-> 0, atOpen |-> 0, fresh |-> FALSE, last |-> -1, mono |-> mono,
   initialSize |-> 0]

(***************************************************************************)
(* Initial state: no file exists, no log is open                           *)
(***************************************************************************)
Init ==
  /\ timeFile = NoFile
  /\ dataFile = NoFile
  /\ impl = NewImpl
  /\ alive = FALSE
  /\ pend = NoPend
  /\ hist = <<>>
  /\ sess = NoSession(TRUE)
  /\ ret = [op |-> "none", ok |-> TRUE, fl |-> FALSE]

\* the open log with the two files
Now == World(impl, timeFile, dataFile)

\* the object and the files become those of the world w
Becomes(w) ==
  /\ impl' = w.impl
  /\ timeFile' = w.tf
  /\ dataFile' = w.df

\* the object is gone, the files are those of the world w
Gone(w) ==
  /\ impl' = NewImpl
  /\ timeFile' = w.tf
  /\ dataFile' = w.df
  /\ alive' = FALSE
  /\ pend' = NoPend

\* the pointer p after an operation that led to the world w: a pointer into
\* a mapping that was replaced is no longer valid
Kept(p, w) ==
  IF (p.file = "time" /\ w.rt) \/ (p.file = "data" /\ w.rd)
  THEN [p EXCEPT !.valid = FALSE] ELSE p

Returned(op, ok, fl) == ret' = [op |-> op, ok |-> ok, fl |-> fl]

(***************************************************************************)
(* Actions: one per operation of DataLog                                   *)
(***************************************************************************)
\* DataLog::Open returned: r is what DoOpen gave; on an error the DataLog
\* that was being built is destroyed
OpenDone(r, created, config) ==
  IF r.err = "none"
  THEN /\ Becomes(r.w)
       /\ alive' = TRUE
       /\ pend' = NoPend
       /\ hist' = IF created THEN <<>> ELSE hist
       /\ sess' = [finishes |-> 0,
                   atOpen |-> IF created THEN 0 ELSE Len(hist),
                   fresh |-> created,
                   last |-> -1,
                   mono |-> IF config.readOnly THEN sess.mono
                            ELSE (created \/ sess.mono) /\ config.checkMonotonic,
                   initialSize |-> config.initialSize]
       /\ Returned("Open", TRUE, FALSE)
  ELSE /\ Gone(Destroy(r.w))
       /\ UNCHANGED <<hist, sess>>
       /\ Returned("Open", FALSE, FALSE)

\* DataLog::Open(filename, dataType, dataLayout, recordSize, disp, config)
\* while no log is open.  A file that holds a log is not created over.
Open(dataType, dataLayout, recordSize, disp, config) ==
  /\ ~alive
  /\ timeFile.exists => disp # CD_CreateAlways
  /\ config.readOnly => disp = CD_OpenExisting
  /\ OpenDone(DoOpen(World(NewImpl, timeFile, dataFile),
                     dataType, dataLayout, recordSize, disp, config),
              ~timeFile.exists, config)

\* the DataLog is destroyed
CloseLog ==
  /\ alive
  /\ Gone(Destroy(Now))
  /\ sess' = NoSession(sess.mono)
  /\ Returned("Close", TRUE, FALSE)
  /\ UNCHANGED hist

\* AppendRawStart returned s
StartDone(s, ts, sz) ==
  /\ Becomes(s.w)
  /\ pend' = IF s.ptr = NullPtr THEN Kept(pend, s.w)
             ELSE [file |-> s.ptr.file, off |-> s.ptr.off, size |-> sz, ts |-> ts,
                   valid |-> TRUE]
  /\ sess' = IF s.ptr = NullPtr THEN sess ELSE [sess EXCEPT !.last = ts]
  /\ Returned("Start", s.ptr # NullPtr, FALSE)
  /\ UNCHANGED <<alive, hist>>

\* AppendRawStart(ts, size)
Start(ts) ==
  /\ alive
  /\ size(impl) < MaxRecords
  /\ StartDone(AppendRawStart(Now, ts, PayloadSize(impl, ts)), ts, PayloadSize(impl, ts))

\* AppendRawFinish led to the world w
FinishDone(w) ==
  /\ Becomes(w)
  /\ pend' = NoPend
  /\ hist' = Append(hist, [ts |-> pend.ts, data |-> Payload(pend.ts, pend.size)])
  /\ sess' = [sess EXCEPT !.finishes = @ + 1]
  /\ Returned("Finish", TRUE, w.fl)
  /\ UNCHANGED alive

\* the caller fills the payload through the pointer it holds, then calls
\* AppendRawFinish with the size it gave to AppendRawStart
Finish ==
  /\ alive
  /\ pend.valid
  /\ FinishDone(AppendRawFinish(StorePayload(Now, pend, Payload(pend.ts, pend.size)),
                                pend.size))

\* AppendRaw returned r
AppendDone(r, ts, data) ==
  /\ Becomes(r.w)
  /\ pend' = IF r.ok THEN NoPend ELSE Kept(pend, r.w)
  /\ hist' = IF r.ok THEN Append(hist, [ts |-> ts, data |-> data]) ELSE hist
  /\ sess' = IF r.ok THEN [sess EXCEPT !.finishes = @ + 1, !.last = ts] ELSE sess
  /\ Returned("Append", r.ok, r.w.fl)
  /\ UNCHANGED alive

\* AppendRaw(ts, data)
Append1(ts) ==
  /\ alive
  /\ size(impl) < MaxRecords
  /\ AppendDone(AppendRaw(Now, ts, Payload(ts, PayloadSize(impl, ts))),
                ts, Payload(ts, PayloadSize(impl, ts)))

\* ReadRaw returned r.  A read outside the mapping either yields whatever
\* the memory holds or faults, which ends the process with the files as
\* they are.
GetDone(r, crash) ==
  IF crash
  THEN /\ Gone(r.w)
       /\ sess' = NoSession(sess.mono)
       /\ Returned("Get", FALSE, FALSE)
       /\ UNCHANGED hist
  ELSE /\ Becomes(r.w)
       /\ pend' = Kept(pend, r.w)
       /\ Returned("Get", TRUE, FALSE)
       /\ UNCHANGED <<alive, hist, sess>>

\* ReadRaw(n)
Get(n) ==
  /\ alive
  /\ \E crash \in BOOLEAN :
       /\ crash => ReadRaw(Now, n).ub
       /\ GetDone(ReadRaw(Now, n), crash)

\* find returned r
FindDone(r) ==
  /\ Becomes(r.w)
  /\ pend' = Kept(pend, r.w)
  /\ Returned("Find", ~r.ub, FALSE)
  /\ UNCHANGED <<alive, hist, sess>>

\* find(ts)
FindTs(ts) ==
  /\ alive
  /\ FindDone(Find(Now, ts))

\* Flush()
DoFlush ==
  /\ alive
  /\ Becomes(Flush(Now))
  /\ pend' = Kept(pend, Flush(Now))
  /\ Returned("Flush", TRUE, TRUE)
  /\ UNCHANGED <<alive, hist, sess>>

Next ==
  \/ \E dataType \in DataTypes, dataLayout \in DataLayouts,
        recordSize \in RecordSizeArgs,
        disp \in {CD_CreateAlways, CD_CreateNew, CD_OpenAlways},
        config \in CreateConfigs :
       Open(dataType, dataLayout, recordSize, disp, config)
  \/ \E dataType \in DataTypes, dataLayout \in DataLayouts,
        recordSize \in RecordSizeArgs, config \in ReopenConfigs :
       Open(dataType, dataLayout, recordSize, CD_OpenExisting, config)
  \/ CloseLog
  \/ \E ts \in Timestamps : Start(ts)
  \/ Finish
  \/ \E ts \in Timestamps : Append1(ts)
  \/ \E n \in 0..MaxRecords : Get(n)
  \/ \E ts \in 0..(MaxTs + 1) : FindTs(ts)
  \/ DoFlush

Spec == Init /\ [][Next]_vars

(***************************************************************************)
(* Logs to search: a newly created log receives up to MaxFindRecords       *)
(* records with strictly increasing timestamps, and is searched            *)
(***************************************************************************)
\* AppendRaw(ts, data) with a timestamp above those appended so far
AppendIncreasing(ts) ==
  /\ alive
  /\ size(impl) < MaxFindRecords
  /\ hist # <<>> => ts > hist[Len(hist)].ts
  /\ AppendDone(AppendRaw(Now, ts, Payload(ts, PayloadSize(impl, ts))),
                ts, Payload(ts, PayloadSize(impl, ts)))

NextFind ==
  \/ \E recordSize \in RecordSizeArgs, config \in CreateConfigs :
       Open("double", "", recordSize, CD_CreateNew, config)
  \/ \E ts \in 0..MaxFindTs : AppendIncreasing(ts)
  \/ \E ts \in 0..(MaxFindTs + 1) : FindTs(ts)

SpecFind == Init /\ [][NextFind]_vars

(***************************************************************************)
(* Logs to check: logs of several data types, layouts and record shapes    *)
(* are created, filled, closed and opened again with every combination of  *)
(* arguments and check flags                                               *)
(***************************************************************************)
CheckDataTypes == {"double", "int64"}
CheckDataLayouts == {"", "x"}

\* recordSize arguments: variable size, 2-byte payloads, and a fixed record
\* as long as the pointer record of a variable-size log
CheckRecordSizes == {0, kTimestampSize + 2, kSmallPointerRecordSize}

\* the configuration config with the three check flags set
WithFlags(config, checkType, checkLayout, checkSize) ==
  [config EXCEPT !.checkType = checkType, !.checkLayout = checkLayout,
                 !.checkSize = checkSize]

\* AppendRaw of the next timestamp
AppendNext ==
  /\ alive
  /\ size(impl) < MaxRecords
  /\ AppendDone(AppendRaw(Now, Len(hist) + 1,
                          Payload(Len(hist) + 1, PayloadSize(impl, Len(hist) + 1))),
                Len(hist) + 1,
                Payload(Len(hist) + 1, PayloadSize(impl, Len(hist) + 1)))

NextCheck ==
  \/ \E dataType \in CheckDataTypes, dataLayout \in CheckDataLayouts,
        recordSize \in CheckRecordSizes, large \in BOOLEAN :
       Open(dataType, dataLayout, recordSize, CD_CreateNew,
            Config(FALSE, FALSE, large, 0, <<>>))
  \/ \E dataType \in CheckDataTypes, dataLayout \in CheckDataLayouts,
        recordSize \in CheckRecordSizes, ro \in BOOLEAN,
        disp \in {CD_OpenExisting, CD_OpenAlways},
        checkType \in BOOLEAN, checkLayout \in BOOLEAN, checkSize \in BOOLEAN :
       /\ timeFile.exists
       /\ Open(dataType, dataLayout, recordSize, disp,
               WithFlags(Config(ro, FALSE, FALSE, 0, <<>>),
                         checkType, checkLayout, checkSize))
  \/ AppendNext
  \/ CloseLog

SpecCheck == Init /\ [][NextCheck]_vars

(***************************************************************************)
(* Logs on a system that can fail: while a newly created log is open, the  *)
(* system may run out of room for either file or refuse to map it, and     *)
(* recover                                                                 *)
(***************************************************************************)
FailConfigs == {Config(FALSE, FALSE, large, 0, <<>>) : large \in BOOLEAN}

\* a payload that does not fit the part of the data file DoOpen maps
BigPayload == kDataOpenLen + 1

\* the system starts or stops failing
OsChanges(tfull, tnomap, dfull, dnomap) ==
  /\ alive
  /\ timeFile' = [timeFile EXCEPT !.full = tfull, !.nomap = tnomap]
  /\ dataFile' = [dataFile EXCEPT !.full = dfull, !.nomap = dnomap]
  /\ UNCHANGED <<impl, alive, pend, hist, sess, ret>>

\* AppendRawStart of the next timestamp
StartNext == Start(Len(hist) + 1)

\* AppendRawStart of the next timestamp with a large payload
StartBig ==
  /\ alive
  /\ size(impl) < MaxRecords
  /\ ~impl.m_fixedSize
  /\ StartDone(AppendRawStart(Now, Len(hist) + 1, BigPayload), Len(hist) + 1, BigPayload)

\* a mapping of the FileInfo fi extends past the end of its file f
PastEnd(fi, f) == fi.map.mapped /\ fi.mapOffset + fi.map.size > f.len

\* the process touches a page of a mapping that lies past the end of the
\* file and is killed (SIGBUS); the files stay as they are
Sigbus ==
  /\ alive
  /\ PastEnd(impl.m_time, timeFile) \/ PastEnd(impl.m_data, dataFile)
  /\ Gone(Now)
  /\ sess' = NoSession(sess.mono)
  /\ Returned("Sigbus", FALSE, FALSE)
  /\ UNCHANGED hist

NextFail ==
  \/ \E recordSize \in RecordSizeArgs, config \in FailConfigs :
       Open("double", "", recordSize, CD_CreateNew, config)
  \/ \E tfull \in BOOLEAN, tnomap \in BOOLEAN, dfull \in BOOLEAN, dnomap \in BOOLEAN :
       OsChanges(tfull, tnomap, dfull, dnomap)
  \/ StartNext
  \/ StartBig
  \/ Finish
  \/ Sigbus
  \/ CloseLog

SpecFail == Init /\ [][NextFail]_vars

(***************************************************************************)
(* Logs that grow: a log is created with one of several initial and        *)
(* maximal grow sizes, receives records, small and large, and is read at   *)
(* and past its end                                                        *)
(***************************************************************************)
\* the largest initialSize and initialDataSize
MaxInitialSize == 2

\* the largest maxGrowSize and maxDataGrowSize
MaxMaxGrowSize == 3

\* the largest index handed to ReadRaw
MaxGrowReads == 5

\* the configuration config with the grow sizes of both files set
Sized(config, initialSize, maxGrowSize) ==
  [config EXCEPT !.initialSize = initialSize, !.maxGrowSize = maxGrowSize,
                 !.initialDataSize = initialSize, !.maxDataGrowSize = maxGrowSize]

GrowConfigs ==
  {Sized(Config(FALSE, FALSE, large, 0, <<>>), initialSize, maxGrowSize) :
     large \in BOOLEAN, initialSize \in 1..MaxInitialSize,
     maxGrowSize \in 1..MaxMaxGrowSize}

NextGrow ==
  \/ \E recordSize \in RecordSizeArgs, config \in GrowConfigs :
       Open("double", "", recordSize, CD_CreateNew, config)
  \/ AppendNext
  \/ StartBig
  \/ Finish
  \/ \E n \in 0..MaxGrowReads : Get(n)

SpecGrow == Init /\ [][NextGrow]_vars

(***************************************************************************)
(* Logs that flush: a log is created with a periodicFlush of 0 to          *)
(* MaxFlush, receives up to MaxFindRecords records, and is flushed         *)
(***************************************************************************)
\* the largest periodicFlush
MaxFlush == 3

FlushConfigs ==
  {Config(FALSE, FALSE, large, flush, <<>>) :
     large \in BOOLEAN, flush \in 0..MaxFlush}

\* AppendRawStart of the next timestamp on a log that takes MaxFindRecords
StartMore ==
  /\ alive
  /\ size(impl) < MaxFindRecords
  /\ StartDone(AppendRawStart(Now, Len(hist) + 1, PayloadSize(impl, Len(hist) + 1)),
               Len(hist) + 1, PayloadSize(impl, Len(hist) + 1))

NextFlush ==
  \/ \E recordSize \in RecordSizeArgs, config \in FlushConfigs :
       Open("double", "", recordSize, CD_CreateNew, config)
  \/ StartMore
  \/ Finish
  \/ DoFlush

SpecFlush == Init /\ [][NextFlush]_vars

(***************************************************************************)
(* The pointer of a variable-size record for positions of 64 bits.  A      *)
(* uint64_t is written here as its eight digits in base 256, the most      *)
(* significant first, since the integers above stay below 2^31.            *)
(***************************************************************************)
\* the value of a digit that is not zero
WideByte == 1

\* the values of a uint64_t: the digits that may differ from zero are the
\* highest, the two on either side of bit 32, and the lowest
Uint64s ==
  {[k \in 1..8 |-> IF k \in S THEN WideByte ELSE 0] : S \in SUBSET {1, 4, 5, 8}}

\* the lowest w bytes of the uint64_t v, the least significant first
LEBytes_u64(v, w) ==
  [len |-> w,
   nz  |-> [i \in {j \in 0..(w - 1) : v[8 - j] # 0} |-> v[8 - i]]]

\* write64le of a uint64_t
write64le_u64(v) == LEBytes_u64(v, 8)

\* write32le of a uint64_t: the argument is converted to uint32_t, which
\* keeps its lowest 32 bits
write32le_u64(v) == LEBytes_u64(v, 4)

\* the uint64_t whose lowest w bytes are those of b at offset at, the others
\* zero
LEValue_u64(b, at, w) ==
  [k \in 1..8 |-> IF 8 - k < w THEN BytesAt(b, at + 8 - k) ELSE 0]

read64le_u64(b, at) == LEValue_u64(b, at, 8)

\* read32le, its uint32_t widened to the uint64_t that Read takes
read32le_u64(b, at) == LEValue_u64(b, at, 4)

\* the time record that AppendRawStart fills in a variable-size log of the
\* given record size when m_data.writePos is writePos: the timestamp slot,
\* then the offset and the size
PointerRecord_u64(recordSize, writePos, sz) ==
  IF recordSize = kLargePointerRecordSize
  THEN Concat(Bytes([k \in 1..kTimestampSize |-> 0]),
              Concat(write64le_u64(writePos), write64le_u64(sz)))
  ELSE Concat(Bytes([k \in 1..kTimestampSize |-> 0]),
              Concat(write32le_u64(writePos), write32le_u64(sz)))

\* the (off, size) that ReadRaw hands to m_data.Read for the time record raw
ReadRawPointer_u64(recordSize, raw) ==
  IF recordSize = kLargePointerRecordSize
  THEN [off  |-> read64le_u64(raw, kTimestampSize),
        size |-> read64le_u64(raw, kTimestampSize + 8)]
  ELSE [off  |-> read32le_u64(raw, kTimestampSize),
        size |-> read32le_u64(raw, kTimestampSize + 4)]

\* a variable-size log whose data write position and next payload size are
\* any two uint64_t: pend holds them
InitPointer ==
  /\ timeFile = NoFile
  /\ dataFile = NoFile
  /\ impl = NewImpl
  /\ alive = FALSE
  /\ hist = <<>>
  /\ sess = NoSession(TRUE)
  /\ ret = [op |-> "none", ok |-> TRUE, fl |-> FALSE]
  /\ \E writePos \in Uint64s, sz \in Uint64s :
       pend = [file |-> "data", off |-> writePos, size |-> sz, ts |-> 0,
               valid |-> TRUE]

\* AppendRawStart writes the time record of a log whose records are of the
\* given size, and ReadRaw reads the pointer of that record back
ReadPointerBack(recordSize) ==
  /\ ret.op = "none"
  /\ ret' = [op |-> "ReadRaw", ok |-> TRUE, fl |-> FALSE,
             recordSize |-> recordSize,
             ptr |-> ReadRawPointer_u64(
                       recordSize,
                       PointerRecord_u64(recordSize, pend.off, pend.size))]
  /\ UNCHANGED <<timeFile, dataFile, impl, alive, pend, hist, sess>>

NextPointer ==
  \E recordSize \in {kSmallPointerRecordSize, kLargePointerRecordSize} :
    ReadPointerBack(recordSize)

SpecPointer == InitPointer /\ [][NextPointer]_vars

(***************************************************************************)
(* Logs of every record size: Open takes any recordSize argument           *)
(***************************************************************************)
\* the recordSize arguments are 0 for a variable-size log, then every size up
\* to a timestamp and MaxPayload bytes
NextShape ==
  \/ \E recordSize \in 0..(kTimestampSize + MaxPayload), large \in BOOLEAN :
       Open("double", "", recordSize, CD_CreateNew,
            Config(FALSE, FALSE, large, 0, <<>>))
  \/ \E disp \in {CD_OpenExisting, CD_OpenAlways}, ro \in BOOLEAN,
        recordSize \in 0..(kTimestampSize + MaxPayload), checkSize \in BOOLEAN :
       /\ timeFile.exists
       /\ Open("double", "", recordSize, disp,
               WithFlags(Config(ro, FALSE, FALSE, 0, <<>>), TRUE, TRUE, checkSize))
  \/ \E n \in 0..MaxRecords : Get(n)
  \/ CloseLog

SpecShape == Init /\ [][NextShape]_vars

(***************************************************************************)
(* StringArrayLog: arrays of strings in a variable-size log                *)
(***************************************************************************)
\* the longest array appended, and the number of arrays a log takes
MaxStrings == 2
MaxStringAppends == 1

\* the arrays appended, a string being a sequence of bytes
StringArrays == UNION {[1..k -> {<<>>, <<97>>, <<98, 99>>}] : k \in 0..MaxStrings}

\* the bytes d stored at offset at of the buffer b
Store(b, at, d) ==
  [len |-> b.len,
   nz  |-> [p \in ((DOMAIN b.nz) \ (at..(at + d.len - 1)))
                    \cup {at + i : i \in DOMAIN d.nz}
              |-> IF (p - at) \in DOMAIN d.nz THEN d.nz[p - at] ELSE b.nz[p]]]

RECURSIVE StringArraySize(_, _, _)
\* the loop that adds value.size() + 1 for the strings from the i-th on
StringArraySize(arr, i, sz) ==
  IF i > Len(arr) THEN sz
  ELSE StringArraySize(arr, i + 1, sz + Len(arr[i]) + 1)

RECURSIVE StoreStrings(_, _, _, _)
\* the loop that copies the strings from the i-th on to out, a NUL after each
StoreStrings(buf, arr, i, out) ==
  IF i > Len(arr) THEN buf
  ELSE StoreStrings(Store(Store(buf, out, Bytes(arr[i])),
                          out + Len(arr[i]), Bytes(<<0>>)),
                    arr, i + 1, out + Len(arr[i]) + 1)

RECURSIVE StorePairs_string(_, _, _, _, _)
\* the offset and length loop of Append(ArrayRef<std::string>): both stores
\* go to out, which then advances by 8; the string data follows
StorePairs_string(buf, arr, i, out, off) ==
  IF i > Len(arr) THEN StoreStrings(buf, arr, 1, out)
  ELSE StorePairs_string(Store(Store(buf, out, write32le(off)),
                               out, write32le(Len(arr[i]))),
                         arr, i + 1, out + 8, off + Len(arr[i]) + 1)

RECURSIVE StorePairs_StringRef(_, _, _, _, _)
\* the offset and length loop of Append(ArrayRef<StringRef>): out advances
\* by 4 after each store; the string data follows
StorePairs_StringRef(buf, arr, i, out, off) ==
  IF i > Len(arr) THEN StoreStrings(buf, arr, 1, out)
  ELSE StorePairs_StringRef(Store(Store(buf, out, write32le(off)),
                                  out + 4, write32le(Len(arr[i]))),
                            arr, i + 1, out + 8, off + Len(arr[i]) + 1)

\* what the stores of Append leave in the memory buf that out points to
StringArrayStores(buf, arr, isRef) ==
  IF isRef
  THEN StorePairs_StringRef(Store(buf, 0, write32le(Len(arr))),
                            arr, 1, 4, 4 + 8 * Len(arr))
  ELSE StorePairs_string(Store(buf, 0, write32le(Len(arr))),
                         arr, 1, 4, 4 + 8 * Len(arr))

\* the sz bytes that the pointer ptr of the world w points to
Pointee(w, ptr, sz) ==
  IF ptr.file = "time"
  THEN FileRead(w.tf, w.impl.m_time.mapOffset + ptr.off, sz)
  ELSE FileRead(w.df, w.impl.m_data.mapOffset + ptr.off, sz)

\* Append after AppendRawStart returned s: [w, ok, data]
StringArrayAppended(s, arr, isRef, sz) ==
  IF s.ptr = NullPtr THEN [w |-> s.w, ok |-> FALSE, data |-> EmptyBytes]
  ELSE [w |-> AppendRawFinish(
                StorePayload(s.w, s.ptr,
                             StringArrayStores(Pointee(s.w, s.ptr, sz), arr, isRef)),
                sz),
        ok |-> TRUE,
        data |-> StringArrayStores(Pointee(s.w, s.ptr, sz), arr, isRef)]

\* StringArrayLog::Append(timestamp, arr), for an ArrayRef<StringRef> if
\* isRef and for an ArrayRef<std::string> otherwise
StringArrayLog_Append(w, timestamp, arr, isRef) ==
  StringArrayAppended(
    AppendRawStart(w, timestamp, StringArraySize(arr, 1, 4 + 8 * Len(arr))),
    arr, isRef, StringArraySize(arr, 1, 4 + 8 * Len(arr)))

\* the string of the bytes b
StringOf(b) == [k \in 1..b.len |-> BytesAt(b, k - 1)]

\* StringArrayLogArrayProxy::operator[](n) on the payload m_data, which is
\* also the body of the loop of Get: [string, ub], ub when a slice leaves the
\* payload
StringArrayLogArrayProxy_At(m_data, n) ==
  [string |-> StringOf(Slice(m_data, read32le(m_data, 4 + n * 8),
                             read32le(m_data, 4 + n * 8 + 4))),
   ub |-> \/ 4 + n * 8 + 8 > m_data.len
          \/ read32le(m_data, 4 + n * 8) + read32le(m_data, 4 + n * 8 + 4)
               > m_data.len]

\* StringArrayLog::Get(n, buf), r being what its ReadRaw(n) returned:
\* [w, ts, strings, ub]
StringArrayLog_Get(r) ==
  [w |-> r.w, ts |-> r.ts,
   strings |-> [i \in 1..read32le(r.data, 0) |->
                  StringArrayLogArrayProxy_At(r.data, i - 1).string],
   ub |-> \/ r.ub
          \/ r.data.len < 4
          \/ \E i \in 1..read32le(r.data, 0) :
               StringArrayLogArrayProxy_At(r.data, i - 1).ub]

\* StringArrayLog::operator[](n), r being what its ReadRaw(n) returned:
\* [w, ts, num, data, ub]
StringArrayLog_At(r) ==
  [w |-> r.w, ts |-> r.ts, num |-> read32le(r.data, 0), data |-> r.data,
   ub |-> r.ub \/ r.data.len < 4]

\* Append returned r
StringsAppendDone(r, ts, arr, isRef) ==
  /\ Becomes(r.w)
  /\ pend' = IF r.ok THEN NoPend ELSE Kept(pend, r.w)
  /\ hist' = IF r.ok
             THEN Append(hist, [ts |-> ts, data |-> r.data, strings |-> arr,
                                isRef |-> isRef])
             ELSE hist
  /\ sess' = IF r.ok THEN [sess EXCEPT !.finishes = @ + 1, !.last = ts] ELSE sess
  /\ ret' = [op |-> "AppendStrings", ok |-> r.ok, fl |-> r.w.fl]
  /\ UNCHANGED alive

\* StringArrayLog::Append of the next timestamp
AppendStrings(arr, isRef) ==
  /\ alive
  /\ size(impl) < MaxStringAppends
  /\ StringsAppendDone(StringArrayLog_Append(Now, Len(hist) + 1, arr, isRef),
                       Len(hist) + 1, arr, isRef)

\* StringArrayLog::Get(n, buf) of a record of the log
GetStrings(n) ==
  /\ alive
  /\ n < size(impl)
  /\ Becomes(StringArrayLog_Get(ReadRaw(Now, n)).w)
  /\ pend' = Kept(pend, StringArrayLog_Get(ReadRaw(Now, n)).w)
  /\ ret' = [op |-> "GetStrings", ok |-> TRUE, fl |-> FALSE, n |-> n,
             strings |-> StringArrayLog_Get(ReadRaw(Now, n)).strings,
             ub |-> StringArrayLog_Get(ReadRaw(Now, n)).ub]
  /\ UNCHANGED <<alive, hist, sess>>

\* log[n].second[i] of a record of the log, for i below the proxy's size
GetString(n, i) ==
  /\ alive
  /\ n < size(impl)
  /\ i < StringArrayLog_At(ReadRaw(Now, n)).num
  /\ Becomes(StringArrayLog_At(ReadRaw(Now, n)).w)
  /\ pend' = Kept(pend, StringArrayLog_At(ReadRaw(Now, n)).w)
  /\ ret' = [op |-> "GetString", ok |-> TRUE, fl |-> FALSE, n |-> n, i |-> i,
             string |-> StringArrayLogArrayProxy_At(
                          StringArrayLog_At(ReadRaw(Now, n)).data, i).string,
             ub |-> \/ StringArrayLog_At(ReadRaw(Now, n)).ub
                    \/ StringArrayLogArrayProxy_At(
                         StringArrayLog_At(ReadRaw(Now, n)).data, i).ub]
  /\ UNCHANGED <<alive, hist, sess>>

NextStrings ==
  \/ \E large \in BOOLEAN :
       Open("string[]", "", 0, CD_CreateNew, Config(FALSE, FALSE, large, 0, <<>>))
  \/ \E arr \in StringArrays, isRef \in BOOLEAN : AppendStrings(arr, isRef)
  \/ \E n \in 0..(MaxStringAppends - 1) : GetStrings(n)
  \/ \E n \in 0..(MaxStringAppends - 1), i \in 0..(MaxStrings - 1) : GetString(n, i)
  \/ CloseLog

SpecStrings == Init /\ [][NextStrings]_vars

(***************************************************************************)
(* Properties                                                              *)
(***************************************************************************)
\* the result r of a ReadRaw is the entry e of the history
ReadsBack(r, e) == r.ts = e.ts /\ r.data = e.data /\ ~r.ub

\* C1: on a newly created log, for every k < size() read_raw(k) returns the
\* timestamp given to the k-th completed append and a payload byte-for-byte
\* equal to the one written for it, whatever was appended, grown or
\* remapped afterwards.
C1_ReadBack ==
  (alive /\ sess.fresh) =>
    /\ size(impl) = Len(hist)
    /\ \A k \in 0..(Len(hist) - 1) : ReadsBack(ReadRaw(Now, k), hist[k + 1])

\* a newly created variable-size log holds two records, the first with a
\* payload, the second appended after the time file was remapped, and
\* ReadRaw has been called
C1_Witness ==
  /\ alive /\ sess.fresh /\ ret.op = "Get"
  /\ ~impl.m_fixedSize
  /\ Len(hist) >= 2
  /\ hist[1].data.len > 0

\* C2 as claimed: if checkMonotonic was set in every session opened for
\* writing, the timestamp of record k is strictly greater than that of
\* record k-1, for all 1 <= k < size(), also after a close and a reopen.
C2_Monotonic ==
  (alive /\ sess.mono) =>
    \A k \in 1..(size(impl) - 1) : ReadRaw(Now, k).ts > ReadRaw(Now, k - 1).ts

\* C3: with checkMonotonic set, AppendRawStart(ts, size) returns null and
\* AppendRaw returns false whenever ts <= the timestamp of the last
\* successful AppendRawStart on the open log, and the rejection changes
\* neither the object (size(), both write positions, m_lastTimestamp) nor
\* a byte of either file.
C3_Rejects ==
  (alive /\ impl.m_checkMonotonic /\ sess.last >= 0) =>
    \A ts \in Timestamps :
      ts <= sess.last =>
        /\ AppendRawStart(Now, ts, PayloadSize(impl, ts)) = [w |-> Now, ptr |-> NullPtr]
        /\ AppendRaw(Now, ts, Payload(ts, PayloadSize(impl, ts))) = [w |-> Now, ok |-> FALSE]

\* an AppendRawStart was rejected on a writable log with checkMonotonic set,
\* after an earlier one succeeded on it
C3_Witness ==
  /\ alive /\ impl.m_checkMonotonic /\ ~impl.m_time.readOnly
  /\ sess.last >= 0
  /\ ret.op = "Start" /\ ~ret.ok

\* C4 as claimed: on a newly created writable log with checkMonotonic set
\* and no append started yet, AppendRawStart succeeds for every timestamp,
\* 0 included.
C4_FirstAppend ==
  (alive /\ sess.fresh /\ impl.m_checkMonotonic /\ ~impl.m_time.readOnly
     /\ sess.last = -1 /\ Len(hist) = 0) =>
    \A ts \in Timestamps :
      AppendRawStart(Now, ts, PayloadSize(impl, ts)).ptr # NullPtr

\* C5 as claimed: read_raw(n) returns (0, empty) for every n >= size(), on
\* a writable or a read-only log, also between an AppendRawStart and its
\* AppendRawFinish.
C5_OutOfRange ==
  alive =>
    \A n \in size(impl)..MaxRecords :
      /\ ReadRaw(Now, n).ts = 0
      /\ ReadRaw(Now, n).data = EmptyBytes

\* C6 as claimed: size() equals the number of AppendRawFinish calls
\* completed since the log was opened.
C6_SizeSinceOpen == alive => size(impl) = sess.finishes

\* C6: in every state of an open log, size() = (m_time.writePos - 4096) /
\* m_recordSize equals the number of records the log held when it was
\* opened plus the number of AppendRawFinish calls completed since; so
\* AppendRawStart alone, ReadRaw, find and Flush leave size() as it is.
C6_Size ==
  alive =>
    /\ size(impl) = sess.atOpen + sess.finishes
    /\ size(impl) * impl.m_recordSize = impl.m_time.writePos - kHeaderSize

\* a log that held a record when it was opened has had an append completed,
\* then a ReadRaw
C6_Witness ==
  /\ alive /\ sess.atOpen > 0 /\ sess.finishes > 0
  /\ ret.op = "Get" /\ ret.ok

\* the timestamps read_raw returns are strictly increasing
StoredIncreasing ==
  \A k \in 1..(size(impl) - 1) : ReadRaw(Now, k).ts > ReadRaw(Now, k - 1).ts

\* the records whose timestamp is >= ts
AtOrAfter(ts) == {n \in 0..(size(impl) - 1) : ReadRaw(Now, n).ts >= ts}

\* the smallest n < size() whose timestamp is >= ts, size() if there is none
Smallest(ts) ==
  IF AtOrAfter(ts) = {} THEN size(impl)
  ELSE CHOOSE n \in AtOrAfter(ts) : \A m \in AtOrAfter(ts) : n <= m

\* the result r of find(ts) is that index, found by reading only records
\* below size() and without changing the object or the files
FindIs(r, ts) ==
  /\ r.first = Smallest(ts)
  /\ r.reads \subseteq 0..(size(impl) - 1)
  /\ ~r.ub
  /\ r.w = Now

\* C7: when the stored timestamps are strictly increasing, find(ts)
\* terminates and returns the smallest n < size() whose record timestamp
\* is >= ts, or size() if there is none, and reads only records with
\* index < size().
C7_Find ==
  (alive /\ StoredIncreasing) =>
    \A ts \in 0..(MaxFindTs + 1) : FindIs(Find(Now, ts), ts)

\* a log holding MaxFindRecords records has been searched
C7_Witness ==
  /\ alive /\ ret.op = "Find"
  /\ size(impl) >= MaxFindRecords
  /\ StoredIncreasing

\* C8 as claimed: when a writable log is closed, the length of the time
\* file is m_time.writePos, and for a variable-size log the length of the
\* data file is m_data.writePos, whatever the number of appends, zero
\* included.
C8_ClosedLength ==
  [][(ret'.op = "Close" /\ ~impl.m_time.readOnly) =>
       /\ timeFile'.len = impl.m_time.writePos
       /\ ~impl.m_fixedSize => dataFile'.len = impl.m_data.writePos]_vars

\* the configuration config with the three checks set to chk
WithChecks(config, chk) ==
  [config EXCEPT !.checkType = chk, !.checkLayout = chk, !.checkSize = chk]

\* the open that gave r succeeded on a log that holds the records of the
\* history
ReopenIs(r) ==
  /\ r.err = "none"
  /\ size(r.w.impl) = Len(hist)
  /\ \A k \in 0..(Len(hist) - 1) : ReadsBack(ReadRaw(r.w, k), hist[k + 1])

\* C9: after a writable log holding N records is closed, an Open with
\* CD_OpenExisting whose checks are off or whose recordSize argument
\* matches the log succeeds, size() is N, and read_raw(k) returns the
\* timestamp and the payload record k had, for every k < N.
C9_Reopen ==
  /\ (~alive /\ timeFile.hdr.json) =>
       \A config \in ReopenConfigs, recordSize \in RecordSizeArgs, chk \in BOOLEAN :
         (chk => (recordSize # 0) = timeFile.hdr.obj.fixedSize.v) =>
           ReopenIs(DoOpen(World(NewImpl, timeFile, dataFile), "double", "",
                           recordSize, CD_OpenExisting, WithChecks(config, chk)))
  /\ (alive /\ ret.op = "Open" /\ ~sess.fresh) => ReopenIs([w |-> Now, err |-> "none"])

\* a variable-size log that held two records when it was closed has been
\* opened again
C9_Witness ==
  /\ alive /\ ret.op = "Open" /\ ~sess.fresh
  /\ ~impl.m_fixedSize
  /\ Len(hist) >= 2
  /\ hist[1].data.len > 0

\* reading the header of the time file gave h, the fields the open log has
HeaderIs(h) ==
  /\ h.err = "none"
  /\ h.impl.m_dataType = impl.m_dataType
  /\ h.impl.m_dataLayout = impl.m_dataLayout
  /\ h.impl.m_recordSize = impl.m_recordSize
  /\ h.impl.m_fixedSize = impl.m_fixedSize
  /\ h.impl.m_gapData = impl.m_gapData
  /\ h.impl.m_time.writePos = impl.m_time.writePos
  /\ h.impl.m_data.writePos = impl.m_data.writePos

\* C10: right after a flush of a writable log, explicit or periodic inside
\* AppendRawFinish, the header in the time file carries the log's dataType,
\* dataLayout, recordSize, fixedSize, gapData, and the two write positions
\* as they are now, so that reading the header yields them.
C10_HeaderRoundTrip ==
  (alive /\ ret.fl /\ ~impl.m_time.readOnly) =>
    HeaderIs(ReadHeader(NewImpl, timeFile))

\* an AppendRawFinish of a variable-size log with gap data has flushed
C10_Witness ==
  /\ alive /\ ret.op = "Finish" /\ ret.fl
  /\ ~impl.m_fixedSize /\ impl.m_gapData # <<>>
  /\ impl.m_data.writePos > 0

RECURSIVE PayloadSum(_)
\* the sum of the payload sizes of the appends of the history h
PayloadSum(h) == IF h = <<>> THEN 0 ELSE Head(h).data.len + PayloadSum(Tail(h))

\* C11: on a newly created variable-size log, m_data.writePos is the sum of
\* the payload sizes of the completed appends plus their number times the
\* length of the gap data, so each completed append advances it by its
\* payload size plus the gap; an AppendRawStart or AppendRaw that is
\* rejected leaves it as it is.
C11_DataWritePos ==
  (alive /\ sess.fresh /\ ~impl.m_fixedSize) =>
    /\ impl.m_data.writePos = PayloadSum(hist) + Len(hist) * Len(impl.m_gapData)
    /\ \A ts \in Timestamps :
         /\ AppendRawStart(Now, ts, PayloadSize(impl, ts)).ptr = NullPtr =>
              AppendRawStart(Now, ts, PayloadSize(impl, ts)).w.impl.m_data.writePos
                = impl.m_data.writePos
         /\ ~AppendRaw(Now, ts, Payload(ts, PayloadSize(impl, ts))).ok =>
              AppendRaw(Now, ts, Payload(ts, PayloadSize(impl, ts))).w.impl.m_data.writePos
                = impl.m_data.writePos

\* a newly created variable-size log with gap data has had two appends
\* completed, one of them with a payload
C11_Witness ==
  /\ alive /\ sess.fresh /\ ~impl.m_fixedSize
  /\ impl.m_gapData # <<>>
  /\ Len(hist) >= 2
  /\ PayloadSum(hist) > 0
  /\ ret.op = "Finish"

\* C12: while a log opened with readOnly = true is open, AppendRawStart
\* returns null and AppendRaw returns false for every timestamp and size,
\* and no operation made on it (AppendRaw, ReadRaw, find, Flush, the close)
\* changes size(), a byte of the header, or the content or the length of
\* either file.
C12_ReadOnly ==
  [][(alive /\ impl.m_time.readOnly) =>
       /\ \A ts \in Timestamps, sz \in 0..MaxPayload :
            /\ AppendRawStart(Now, ts, sz) = [w |-> Now, ptr |-> NullPtr]
            /\ AppendRaw(Now, ts, Payload(ts, sz)) = [w |-> Now, ok |-> FALSE]
       /\ timeFile' = timeFile
       /\ dataFile' = dataFile
       /\ alive' => size(impl') = size(impl)]_vars

\* a variable-size log holding a record is open read-only, and an AppendRaw
\* has returned false
C12_Witness ==
  /\ alive /\ impl.m_time.readOnly
  /\ ~impl.m_fixedSize
  /\ size(impl) >= 1
  /\ ret.op = "Append" /\ ~ret.ok

\* what the header object h stores differs from the arguments in a field
\* whose check is enabled
StoredMismatch(h, dataType, dataLayout, recordSize, checkType, checkLayout, checkSize) ==
  \/ checkType /\ h.dataType.v # dataType
  \/ checkLayout /\ h.dataLayout.v # dataLayout
  \/ checkSize /\
       ~(IF recordSize # 0
         THEN h.fixedSize.v /\ h.recordSize.v = recordSize
         ELSE ~h.fixedSize.v /\ h.recordSize.v \in {16, 24})

\* the error of an Open of the existing log with these arguments
ExistingOpenErr(dataType, dataLayout, recordSize, ro, disp, checkType, checkLayout, checkSize) ==
  DoOpen(World(NewImpl, timeFile, dataFile), dataType, dataLayout, recordSize, disp,
         WithFlags(Config(ro, FALSE, FALSE, 0, <<>>),
                   checkType, checkLayout, checkSize)).err

\* C13: opening an existing log fails with wrong_protocol_type exactly when
\* an enabled check finds a mismatch: checkType and another dataType,
\* checkLayout and another dataLayout, or checkSize and another record shape
\* (a non-zero recordSize argument wants a fixed-size log of that
\* recordSize, a zero argument a variable-size log of recordSize 16 or 24);
\* otherwise, a mismatch in a field whose flag is off included, it succeeds.
C13_Check ==
  (~alive /\ timeFile.hdr.json) =>
    \A dataType \in CheckDataTypes, dataLayout \in CheckDataLayouts,
       recordSize \in CheckRecordSizes, ro \in BOOLEAN,
       disp \in {CD_OpenExisting, CD_OpenAlways},
       checkType \in BOOLEAN, checkLayout \in BOOLEAN, checkSize \in BOOLEAN :
      ExistingOpenErr(dataType, dataLayout, recordSize, ro, disp,
                      checkType, checkLayout, checkSize)
        = IF StoredMismatch(timeFile.hdr.obj, dataType, dataLayout, recordSize,
                            checkType, checkLayout, checkSize)
          THEN "wrong_protocol_type" ELSE "none"

\* an Open of an existing variable-size log holding records has failed
C13_Witness ==
  /\ ~alive /\ timeFile.hdr.json
  /\ ~timeFile.hdr.obj.fixedSize.v
  /\ Len(hist) >= 1
  /\ ret.op = "Open" /\ ~ret.ok

\* after a call that replaced its mapping, the FileInfo fi of the file f has
\* no mapping, or a fileSize the file could not be given
GrowthFailed(fi, f) == ~fi.map.mapped \/ fi.fileSize > f.len

\* the AppendRawStart that gave s returned null and left the write
\* positions, size() and m_lastTimestamp as they are, if extending or
\* mapping the time file or the data file failed in it
FailsCleanly(s) ==
  (\/ s.w.rt /\ GrowthFailed(s.w.impl.m_time, s.w.tf)
   \/ s.w.rd /\ GrowthFailed(s.w.impl.m_data, s.w.df)) =>
    /\ s.ptr = NullPtr
    /\ s.w.impl.m_time.writePos = impl.m_time.writePos
    /\ s.w.impl.m_data.writePos = impl.m_data.writePos
    /\ size(s.w.impl) = size(impl)
    /\ s.w.impl.m_lastTimestamp = impl.m_lastTimestamp

\* C14 as claimed: an AppendRawStart in which extending or remapping the
\* time file fails, or the data file after the time slot was written,
\* returns null and leaves m_time.writePos, m_data.writePos, size() and
\* m_lastTimestamp unchanged.
C14_FailedStart ==
  (alive /\ ~impl.m_time.readOnly) =>
    \A sz \in {PayloadSize(impl, Len(hist) + 1), BigPayload} :
      FailsCleanly(AppendRawStart(Now, Len(hist) + 1, sz))

\* a GetMappedOffset that gave g reported by its error code and SIZE_MAX
\* that extending or mapping the file failed in it
Surfaced(g) == (g.remapped /\ GrowthFailed(g.fi, g.f)) => (g.ec /\ g.off = -1)

\* C16 as claimed: when extending the file or mapping it fails inside
\* GetMappedOffset, the error code is set and SIZE_MAX is returned, so that
\* no pointer into a mapping that extends past the end of the file is
\* handed out; the fileSize field never exceeds the length of the file.
C16_Surfaced ==
  alive =>
    /\ impl.m_time.fileSize <= timeFile.len
    /\ ~impl.m_fixedSize => impl.m_data.fileSize <= dataFile.len
    /\ \A n \in 0..MaxRecords :
         Surfaced(GetMappedOffset(impl.m_time, timeFile,
                                  kHeaderSize + n * impl.m_recordSize,
                                  impl.m_recordSize))
    /\ ~impl.m_fixedSize =>
         Surfaced(GetMappedOffset(impl.m_data, dataFile, impl.m_data.writePos,
                                  BigPayload))

RoundedUp(n, m) == CHOOSE k \in n..(n + m - 1) : k % m = 0

CoveredBy(g, pos, len) ==
  ~g.ec =>
    /\ g.fi.map.mapped
    /\ pos >= g.fi.mapOffset
    /\ pos + len <= g.fi.mapOffset + g.fi.map.size
    /\ g.off = pos - g.fi.mapOffset
    /\ g.fi.mapOffset + g.fi.map.size <= g.fi.fileSize

\* C17 as claimed: whenever GetMappedOffset(pos, len) returns without error,
\* on a writable or a read-only FileInfo, the mapping covers [pos, pos+len),
\* the offset returned is pos - mapOffset and the mapping lies within the
\* file size; so Read(pos, len) never returns a view that extends past the
\* mapping.
C17_Covered ==
  alive =>
    \A n \in 0..MaxRecords :
      /\ CoveredBy(GetMappedOffset(impl.m_time, timeFile,
                                   kHeaderSize + n * impl.m_recordSize,
                                   impl.m_recordSize),
                   kHeaderSize + n * impl.m_recordSize, impl.m_recordSize)
      /\ Read(impl.m_time, timeFile, kHeaderSize + n * impl.m_recordSize,
              impl.m_recordSize).valid

Max(a, b) == IF a > b THEN a ELSE b

\* the GetMappedOffset(pos, len) that gave g, if it found the range
\* uncovered, grew the FileInfo fi as the growth policy says
GrewByPolicy(fi, g, pos, len) ==
  g.remapped =>
    /\ g.fi.fileSize = Max(fi.fileSize, RoundedUp(pos + len, fi.mapGrowSize))
    /\ g.fi.mapGrowSize = Min(2 * fi.mapGrowSize, fi.maxGrowSize)
    /\ g.fi.fileSize >= fi.fileSize
    /\ g.fi.mapGrowSize >= fi.mapGrowSize
    /\ g.fi.mapGrowSize <= g.fi.maxGrowSize

\* C18 as claimed: when GetMappedOffset(pos, len) of a writable FileInfo
\* finds the range uncovered, fileSize becomes the maximum of its old value
\* and the smallest multiple of the old mapGrowSize that is >= pos + len,
\* and mapGrowSize is doubled and clamped at maxGrowSize; so neither
\* decreases, and after a growth mapGrowSize <= maxGrowSize.
C18_GrowthPolicy ==
  (alive /\ ~impl.m_time.readOnly) =>
    /\ \A n \in 0..MaxGrowReads :
         GrewByPolicy(impl.m_time,
                      GetMappedOffset(impl.m_time, timeFile,
                                      kHeaderSize + n * impl.m_recordSize,
                                      impl.m_recordSize),
                      kHeaderSize + n * impl.m_recordSize, impl.m_recordSize)
    /\ ~impl.m_fixedSize =>
         GrewByPolicy(impl.m_data,
                      GetMappedOffset(impl.m_data, dataFile, impl.m_data.writePos,
                                      BigPayload),
                      impl.m_data.writePos, BigPayload)

\* the GetMappedOffset(pos, len) that gave g returned at once, leaving the
\* FileInfo fi and the file f as they are
ReturnedAtOnce(g, fi, f, pos) ==
  g = [fi |-> fi, f |-> f, off |-> pos - fi.mapOffset, ec |-> FALSE,
       remapped |-> FALSE]

\* C19: GetMappedOffset on a range the mapping covers returns at once and
\* leaves the mapping, fileSize and mapGrowSize unchanged; so ReadRaw(k) for
\* k < size() and find(ts) replace no mapping and grow no file (the object
\* and both files are as before), and the pointer an AppendRawStart
\* returned is still valid after them.
C19_EasyCase ==
  alive =>
    /\ \A n \in 0..MaxRecords :
         (/\ impl.m_time.map.mapped
          /\ kHeaderSize + (n + 1) * impl.m_recordSize
                <= impl.m_time.mapOffset + impl.m_time.map.size) =>
           ReturnedAtOnce(GetMappedOffset(impl.m_time, timeFile,
                                          kHeaderSize + n * impl.m_recordSize,
                                          impl.m_recordSize),
                          impl.m_time, timeFile, kHeaderSize + n * impl.m_recordSize)
    /\ \A k \in 0..(size(impl) - 1) :
         /\ ReadRaw(Now, k).w = Now
         /\ Kept(pend, ReadRaw(Now, k).w) = pend
    /\ \A ts \in 0..(MaxTs + 1) :
         /\ Find(Now, ts).w = Now
         /\ Kept(pend, Find(Now, ts).w) = pend

\* while the pointer of an AppendRawStart on a variable-size log holding a
\* record is valid, find has been called
C19_Witness ==
  /\ alive /\ pend.valid
  /\ ~impl.m_fixedSize
  /\ size(impl) >= 1
  /\ ret.op = "Find"

\* C20: with m_periodicFlush = N > 0, the k-th AppendRawFinish since the
\* open flushes exactly when k is a multiple of N; the flush comes after
\* both write positions moved, so the header it writes carries them; the
\* counter is k mod N, so 0 <= counter < N between operations.  With
\* m_periodicFlush = 0 AppendRawFinish never flushes.
C20_PeriodicFlush ==
  (alive /\ ~impl.m_time.readOnly) =>
    /\ impl.m_periodicFlush > 0 =>
         /\ impl.m_periodicFlushCount = sess.finishes % impl.m_periodicFlush
         /\ impl.m_periodicFlushCount >= 0
         /\ impl.m_periodicFlushCount < impl.m_periodicFlush
    /\ (ret.op \in {"Finish", "Append"} /\ ret.ok) =>
         /\ ret.fl = (/\ impl.m_periodicFlush > 0
                      /\ sess.finishes % impl.m_periodicFlush = 0)
         /\ ret.fl => HeaderIs(ReadHeader(NewImpl, timeFile))

\* an AppendRawFinish of a variable-size log with m_periodicFlush > 1 has
\* flushed for the second time since the open
C20_Witness ==
  /\ alive /\ impl.m_periodicFlush > 1
  /\ ~impl.m_fixedSize
  /\ sess.finishes > impl.m_periodicFlush
  /\ ret.op = "Finish" /\ ret.fl

\* C21: in a variable-size log the offset and the length in a record's time
\* slot are the data write position at that AppendRawStart and the size asked
\* for, with 16-byte records as with 24-byte ones and however far the data
\* file has grown, so that ReadRaw slices that payload
C21_Pointer ==
  ret.op = "ReadRaw" => (ret.ptr.off = pend.off /\ ret.ptr.size = pend.size)

\* C22: every log that Open returns has recordSize >= 8; a variable-size log
\* has recordSize 16 or 24; a fixed-size log has recordSize = 8 + payload size,
\* the payload size being recordSize - 8 >= 0, and no data file is opened for
\* it
C22_RecordShape ==
  (alive /\ ret.op = "Open" /\ ret.ok) =>
    /\ impl.m_recordSize >= kTimestampSize
    /\ ~impl.m_fixedSize =>
         impl.m_recordSize \in {kSmallPointerRecordSize, kLargePointerRecordSize}
    /\ impl.m_fixedSize => (~impl.m_data.fd /\ ~dataFile.exists)

RECURSIVE StringOffset(_, _)
\* where string i (from 1) of the array arr lies in its payload: after the
\* count, the pairs and the strings before it with their NULs
StringOffset(arr, i) ==
  IF i = 1 THEN 4 + 8 * Len(arr)
  ELSE StringOffset(arr, i - 1) + Len(arr[i - 1]) + 1

\* the payload data holds the array arr: a 32-bit count, for string i (from
\* 0) its offset and length at bytes 4+8i..4+8i+7, and the strings, each
\* with a NUL after it
HoldsStrings(data, arr) ==
  /\ read32le(data, 0) = Len(arr)
  /\ \A i \in 1..Len(arr) :
       /\ read32le(data, 4 + 8 * (i - 1)) = StringOffset(arr, i)
       /\ read32le(data, 4 + 8 * (i - 1) + 4) = Len(arr[i])
       /\ StringOf(Slice(data, StringOffset(arr, i), Len(arr[i]) + 1))
            = Append(arr[i], 0)

\* C23: Append writes the same payload for an array of std::string as for the
\* equal array of StringRef: the count, the (offset, length) pairs and the
\* NUL-terminated strings; Get(n) and operator[](n) return the strings that
\* were appended, for both overloads
C23_StringArrayRoundTrip ==
  /\ \A k \in 1..Len(hist) : HoldsStrings(hist[k].data, hist[k].strings)
  /\ ret.op = "GetStrings" =>
       (~ret.ub /\ ret.strings = hist[ret.n + 1].strings)
  /\ ret.op = "GetString" =>
       (~ret.ub /\ ret.string = hist[ret.n + 1].strings[ret.i + 1])

====
